---- MODULE Spec2Model ----
(***************************************************************************)
(* Model of js/script.js, the client-side layer of the art studio site:    *)
(* the shopping cart (in-memory array `cart`, localStorage key             *)
(* 'artStudioCart', the rendered cart table) and the gallery modal.        *)
(*                                                                         *)
(* JavaScript values are records [t, n, s]: t is the kind of value, n the  *)
(* numeric value in hundredths (only for t = "num"), s the characters of a *)
(* string (only for t = "str").  Numbers of the model carry at most two    *)
(* fraction digits, so arithmetic in hundredths is exact.                  *)
(***************************************************************************)
EXTENDS Integers, Sequences, FiniteSets, TLC

\* ------------------------------------------------------------------------
\* Bounds
\* ------------------------------------------------------------------------
\* Longest cart the model builds.
MaxCart == 2

\* Hundredths per unit: prices are shown with toFixed(2).
Scale == 100

\* ------------------------------------------------------------------------
\* JavaScript values
\* ------------------------------------------------------------------------
V(t, n, s) == [t |-> t, n |-> n, s |-> s]
Undefined == V("undefined", 0, <<>>)
Null == V("null", 0, <<>>)
NaN == V("nan", 0, <<>>)
PosInf == V("inf", 0, <<>>)
NegInf == V("-inf", 0, <<>>)
\* the number h / Scale
Num(h) == V("num", h, <<>>)
Str(s) == V("str", 0, s)

\* typeof v === 'number'
IsNumberType(v) == v.t \in {"num", "nan", "inf", "-inf"}

\* ToBoolean(v): `!v` is ~Truthy(v)
Truthy(v) ==
    CASE v.t \in {"undefined", "null", "nan"} -> FALSE
      [] v.t = "num" -> v.n # 0
      [] v.t = "str" -> v.s # <<>>
      [] OTHER -> TRUE

\* ------------------------------------------------------------------------
\* Strings: parseFloat
\* ------------------------------------------------------------------------
DigitChars == <<"0", "1", "2", "3", "4", "5", "6", "7", "8", "9">>
IsDigit(c) == \E d \in 1..10 : DigitChars[d] = c
DigitVal(c) == (CHOOSE d \in 1..10 : DigitChars[d] = c) - 1
InfinityChars == <<"I", "n", "f", "i", "n", "i", "t", "y">>

RECURSIVE SkipWs(_, _)
SkipWs(s, i) == IF i <= Len(s) /\ s[i] = " " THEN SkipWs(s, i + 1) ELSE i

\* first position >= i of s that holds no digit
RECURSIVE DigitsEnd(_, _)
DigitsEnd(s, i) == IF i <= Len(s) /\ IsDigit(s[i]) THEN DigitsEnd(s, i + 1) ELSE i

\* value of the digits s[i..j-1]
RECURSIVE DigitsVal(_, _, _)
DigitsVal(s, i, j) ==
    IF j <= i THEN 0 ELSE DigitsVal(s, i, j - 1) * 10 + DigitVal(s[j - 1])

\* Where the numeric prefix of s ends (one past its last character), and its
\* value: leading blanks, a sign, then "Infinity" or digits with an optional
\* fraction.  The model's strings hold no exponent part.
NumericPrefix(s) ==
    LET i0 == SkipWs(s, 1)
        signed == i0 <= Len(s) /\ s[i0] \in {"+", "-"}
        neg == i0 <= Len(s) /\ s[i0] = "-"
        i1 == IF signed THEN i0 + 1 ELSE i0
        isInf == i1 + 7 <= Len(s) /\ SubSeq(s, i1, i1 + 7) = InfinityChars
        i2 == DigitsEnd(s, i1)
        hasDot == i2 <= Len(s) /\ s[i2] = "."
        i3 == IF hasDot THEN DigitsEnd(s, i2 + 1) ELSE i2
        nInt == i2 - i1
        nFrac == IF hasDot THEN i3 - (i2 + 1) ELSE 0
        f1 == IF nFrac >= 1 THEN DigitVal(s[i2 + 1]) ELSE 0
        f2 == IF nFrac >= 2 THEN DigitVal(s[i2 + 2]) ELSE 0
        mag == DigitsVal(s, i1, i2) * Scale + f1 * 10 + f2
    IN  IF isInf THEN [end |-> i1 + 8, val |-> IF neg THEN NegInf ELSE PosInf]
        ELSE IF nInt = 0 /\ nFrac = 0 THEN [end |-> i0, val |-> NaN]
        ELSE [end |-> IF nFrac = 0 THEN i2 ELSE i3,
              val |-> Num(IF neg THEN 0 - mag ELSE mag)]

\* parseFloat(s): the value of the longest numeric prefix, NaN if none
ParseFloat(s) == NumericPrefix(s).val

\* ToNumber(v) for the values that are not strings (null -> 0, true -> 1, ...)
ToNumber(v) ==
    CASE IsNumberType(v) -> v
      [] v.t = "null" -> Num(0)
      [] v.t = "true" -> Num(Scale)
      [] v.t = "false" -> Num(0)
      [] OTHER -> NaN

\* isNaN(v)
IsNaN(v) == ToNumber(v).t = "nan"

\* v < k and v >= k for an integer k, as the relational operators compute them
\* (every comparison with NaN is false)
LessThan(v, k) ==
    LET x == ToNumber(v)
    IN  CASE x.t = "num" -> x.n < k * Scale
          [] x.t = "-inf" -> TRUE
          [] OTHER -> FALSE
AtLeast(v, k) ==
    LET x == ToNumber(v)
    IN  CASE x.t = "num" -> x.n >= k * Scale
          [] x.t = "inf" -> TRUE
          [] OTHER -> FALSE

\* Number.prototype.toFixed(2) of a number value, as characters
RECURSIVE NatChars(_)
NatChars(n) ==
    IF n < 10 THEN <<DigitChars[n + 1]>>
    ELSE NatChars(n \div 10) \o <<DigitChars[(n % 10) + 1]>>
ToFixed2(v) ==
    CASE v.t = "inf" -> InfinityChars
      [] v.t = "-inf" -> <<"-">> \o InfinityChars
      [] v.t = "nan" -> <<"N", "a", "N">>
      [] v.t = "num" ->
            LET a == IF v.n < 0 THEN 0 - v.n ELSE v.n
            IN  (IF v.n < 0 THEN <<"-">> ELSE <<>>) \o NatChars(a \div Scale)
                \o <<".", DigitChars[((a % Scale) \div 10) + 1],
                     DigitChars[(a % 10) + 1]>>

\* x + y on number values (the fold of the total)
Plus(x, y) ==
    CASE x.t = "nan" \/ y.t = "nan" -> NaN
      [] x.t = "inf" -> IF y.t = "-inf" THEN NaN ELSE PosInf
      [] x.t = "-inf" -> IF y.t = "inf" THEN NaN ELSE NegInf
      [] y.t \in {"inf", "-inf"} -> y
      [] OTHER -> Num(x.n + y.n)

\* ------------------------------------------------------------------------
\* Cart elements and their JSON text
\* ------------------------------------------------------------------------
\* An element of the cart array: k = "object" for an object with the
\* properties name, price, id (Undefined where the property is missing),
\* k = "null" for null.
Elem(k, name, price, id) == [k |-> k, name |-> name, price |-> price, id |-> id]
Item(name, price, id) == Elem("object", name, price, id)
NullElem == Elem("null", Undefined, Undefined, Undefined)

\* A property that JSON text does not hold
Absent == V("absent", 0, <<>>)

\* JSON.stringify of a property value: undefined is left out, a number that
\* is not finite is written as null
ToJSON(v) ==
    CASE v.t = "undefined" -> Absent
      [] v.t \in {"nan", "inf", "-inf"} -> Null
      [] OTHER -> v
\* JSON.parse of a property: a property the text does not hold reads undefined
FromJSON(d) == IF d.t = "absent" THEN Undefined ELSE d

StringifyElem(e) == Elem(e.k, ToJSON(e.name), ToJSON(e.price), ToJSON(e.id))
ParseElem(d) == Elem(d.k, FromJSON(d.name), FromJSON(d.price), FromJSON(d.id))

\* JSON.stringify(cart) and JSON.parse of the text of an array
Stringify(c) == [i \in 1..Len(c) |-> StringifyElem(c[i])]
Parse(elems) == [i \in 1..Len(elems) |-> ParseElem(elems[i])]

\* What localStorage holds under the key 'artStudioCart'
NoEntry == [k |-> "absent", elems |-> <<>>]
EmptyText == [k |-> "empty", elems |-> <<>>]
GarbageText == [k |-> "garbage", elems |-> <<>>]
NonArrayText == [k |-> "nonarray", elems |-> <<>>]
ArrayText(elems) == [k |-> "array", elems |-> elems]

\* ------------------------------------------------------------------------
\* The environment: names, prices, ids, indexes, stored texts, pages
\* ------------------------------------------------------------------------
Sunset == Str(<<"S", "u", "n", "s", "e", "t">>)
Ocean == Str(<<"O", "c", "e", "a", "n">>)
EmptyStr == Str(<<>>)

\* Date.now().toString(36) + Math.random().toString(36).substr(2): neither
\* part is checked against the ids in the cart, so any id may come out twice
GenIds == {Str(<<"k", "1">>), Str(<<"k", "2">>)}

\* calls addToCart(name, price)
AddRequests ==
    { <<Sunset, Num(2500)>>,
      <<Ocean, Str(<<"4", "0">>)>>,
      <<Sunset, PosInf>>,
      <<Ocean, Str(<<"4", "0", "a", "b", "c">>)>>,
      <<EmptyStr, Num(2500)>>,
      <<Sunset, Num(0 - 500)>>,
      <<Ocean, Str(<<"-", "5">>)>>,
      <<Sunset, NaN>>,
      <<Ocean, Str(<<"a", "b", "c">>)>> }

\* .add-to-cart buttons: data-name and data-price (Null: no such attribute)
Buttons ==
    { <<Sunset, Str(<<"2", "5", ".", "0", "0">>)>>,
      <<Ocean, Str(<<" ", "4", "0">>)>>,
      <<Sunset, Str(<<"I", "n", "f", "i", "n", "i", "t", "y">>)>>,
      <<Sunset, Null>>,
      <<Null, Str(<<"4", "0">>)>> }

\* calls removeItem(index)
IndexInputs ==
    { Num(i * Scale) : i \in (0 - 1)..MaxCart }
        \cup { Num(50), NaN, Str(<<"0">>) }

\* texts found under the storage key when a page loads
StoredInputs ==
    { NoEntry, EmptyText, GarbageText, NonArrayText,
      ArrayText(<<>>),
      ArrayText(<<StringifyElem(Item(Sunset, Num(2500), Str(<<"k", "1">>)))>>),
      ArrayText(<<StringifyElem(NullElem)>>),
      ArrayText(<<StringifyElem(Item(Ocean, Str(<<"5">>), Str(<<"k", "2">>)))>>) }

\* a browser: how its storage behaves and what it holds when the first page
\* of the model loads.  "ok": localStorage works; "none": there is no
\* localStorage; "throws": every access throws; "quota": reads work, setItem
\* throws
Browsers ==
    { <<"ok", st>> : st \in StoredInputs }
        \cup { <<"quota", ArrayText(<<StringifyElem(
                              Item(Sunset, Num(2500), Str(<<"k", "1">>)))>>)>>,
               <<"none", NoEntry>>,
               <<"throws", ArrayText(<<StringifyElem(
                              Item(Sunset, Num(2500), Str(<<"k", "1">>)))>>)>> }

\* pages of the site, as the set of the elements this code looks for
StorePage == {"cart-table", "cart-total", "add-to-cart", "clear-cart-btn"}
StorePages ==
    { StorePage, StorePage \ {"cart-total"},
      {"add-to-cart", "clear-cart-btn"} }

\* ------------------------------------------------------------------------
\* State
\* ------------------------------------------------------------------------
VARIABLES
    cart,           \* the global array `cart`
    storage,        \* the text under localStorage key 'artStudioCart'
    storageMode,    \* how localStorage behaves in this browser
    page,           \* the elements the current page has
    cartTable,      \* the rows of #cart-table
    cartTotal,      \* the text of #cart-total
    installed,      \* the listeners the DOMContentLoaded handler installed
    overlayDisplay, \* #modal-overlay style.display
    imageSrc,       \* #modal-image src
    captionText,    \* #modal-caption textContent
    captionDisplay, \* #modal-caption style.display
    bodyOverflow,   \* document.body.style.overflow
    location,       \* window.location.pathname
    mainNav,        \* #main-nav: its 'active' class and its links
    navToggle,      \* #nav-toggle: its 'active' class and aria-expanded
    toggleClicked,  \* #nav-toggle was clicked since the page was loaded
    forms,          \* the form elements and their fields
    focused,        \* the element that has focus
    ev              \* the last event: its kind, its inputs, what it did

cartVars == <<cart, storage, cartTable, cartTotal>>
envVars == <<storageMode, page, installed>>
modalVars == <<overlayDisplay, imageSrc, captionText, captionDisplay,
               bodyOverflow, focused>>
siteVars == <<location, mainNav, navToggle, toggleClicked, forms>>
vars == <<cart, storage, storageMode, page, cartTable, cartTotal, installed,
          overlayDisplay, imageSrc, captionText, captionDisplay,
          bodyOverflow, location, mainNav, navToggle, toggleClicked, forms,
          focused, ev>>

\* the record of an event; fields an event does not use keep these values
\* (accepted: the call passed its validation, the key handler its condition;
\* prompted: confirm() was shown;
\* threw: the handler ended with an uncaught exception)
NoEvent ==
    [op |-> "none", name |-> Undefined, price |-> Undefined, id |-> Undefined,
     index |-> Undefined, prompted |-> FALSE, confirmed |-> FALSE,
     threw |-> FALSE, src |-> Undefined, caption |-> Undefined,
     target |-> "", key |-> "", accepted |-> FALSE]

\* ------------------------------------------------------------------------
\* loadCart, saveCart
\* ------------------------------------------------------------------------
\* the value of `cart` when loadCart returns
loadCart(mode, st) ==
    CASE mode = "none" -> <<>>
      [] mode = "throws" -> <<>>
      [] OTHER ->
            CASE st.k = "absent" -> <<>>
              [] st.k = "empty" -> <<>>
              [] st.k = "garbage" -> <<>>
              [] st.k = "nonarray" -> <<>>
              [] st.k = "array" -> Parse(st.elems)

\* a saveCart that never reaches setItem
saveCartSkipped(mode, c, st) == st

\* the stored text when saveCart returns
saveCart(mode, c, st) ==
    IF mode = "ok" THEN ArrayText(Stringify(c)) ELSE st

\* ------------------------------------------------------------------------
\* updateCartUI
\* ------------------------------------------------------------------------
TotalLabel == <<"T", "o", "t", "a", "l", ":", " ", "$">>
PlaceholderRow ==
    [cls |-> "cart-empty", name |-> <<>>, price |-> <<>>, index |-> 0 - 1]

\* textContent of a name; the names of the model are strings or missing
TextOf(v) == IF v.t = "str" THEN v.s ELSE <<>>

\* building the row of element e throws a TypeError: e is null (line 374),
\* or e.price has no toFixed (line 380)
RowThrows(e) == e.k = "null" \/ ~IsNumberType(e.price)

\* a row whose remove button counts the rows from 1
RowOneBased(e, index) ==
    [cls |-> "cart-item", name |-> TextOf(e.name),
     price |-> <<"$">> \o ToFixed2(e.price), index |-> index + 1]

\* the row of element e at array index `index`, with its remove button
Row(e, index) ==
    [cls |-> "cart-item", name |-> TextOf(e.name),
     price |-> <<"$">> \o ToFixed2(e.price), index |-> index]

\* number of rows forEach appends before it throws or ends
RECURSIVE RowsBuilt(_, _)
RowsBuilt(c, i) ==
    IF i > Len(c) \/ RowThrows(c[i]) THEN i - 1 ELSE RowsBuilt(c, i + 1)

\* cart.reduce(sum + item.price, 0)
RECURSIVE SumPrices(_, _)
SumPrices(c, n) ==
    IF n = 0 THEN Num(0) ELSE Plus(SumPrices(c, n - 1), c[n].price)

\* an updateCartUI without the early return for a missing #cart-table: the
\* write to innerHTML of null throws
updateCartUIUnguarded(pg, c, table, total) ==
    IF "cart-table" \notin pg
    THEN [table |-> table, total |-> total, threw |-> TRUE]
    ELSE IF Len(c) = 0
    THEN [table |-> <<PlaceholderRow>>,
          total |-> IF "cart-total" \in pg
                    THEN TotalLabel \o ToFixed2(Num(0)) ELSE total,
          threw |-> FALSE]
    ELSE LET n == RowsBuilt(c, 1)
         IN  [table |-> [i \in 1..n |-> Row(c[i], i - 1)],
              total |-> IF n = Len(c) /\ "cart-total" \in pg
                        THEN TotalLabel \o ToFixed2(SumPrices(c, Len(c)))
                        ELSE total,
              threw |-> n < Len(c)]

\* the table rows and the total text when updateCartUI ends, and whether it
\* ended by throwing
updateCartUI(pg, c, table, total) ==
    IF "cart-table" \notin pg
    THEN [table |-> table, total |-> total, threw |-> FALSE]
    ELSE IF Len(c) = 0
    THEN [table |-> <<PlaceholderRow>>,
          total |-> IF "cart-total" \in pg
                    THEN TotalLabel \o ToFixed2(Num(0)) ELSE total,
          threw |-> FALSE]
    ELSE LET n == RowsBuilt(c, 1)
         IN  [table |-> [i \in 1..n |-> Row(c[i], i - 1)],
              total |-> IF n = Len(c) /\ "cart-total" \in pg
                        THEN TotalLabel \o ToFixed2(SumPrices(c, Len(c)))
                        ELSE total,
              threw |-> n < Len(c)]

\* a saveCart without its try/catch: a failing setItem reaches the caller
saveCartUncaught(mode) == mode \in {"throws", "quota"}

\* saveCart ends by throwing: never, its whole body is inside try/catch
saveCartThrows(mode) == FALSE

\* saveCart() followed by updateCartUI(), as the three mutators call them:
\* the table and the total afterwards, and whether an exception came out
SaveAndUpdate(mode, pg, c, table, total) ==
    IF saveCartThrows(mode)
    THEN [table |-> table, total |-> total, threw |-> TRUE]
    ELSE updateCartUI(pg, c, table, total)

\* ------------------------------------------------------------------------
\* addToCart, removeItem, clearCart
\* ------------------------------------------------------------------------
\* line 258
ParsedPrice(price) == IF price.t = "str" THEN ParseFloat(price.s) ELSE price

\* the two validations pass (lines 252, 260)
AddAccepts(name, price) ==
    /\ Truthy(name)
    /\ ~(IsNaN(ParsedPrice(price)) \/ LessThan(ParsedPrice(price), 0))

\* a push at the wrong end: cart.unshift(item)
PushFront(c, item) == <<item>> \o c

\* cart.push(item)
Push(c, item) == Append(c, item)

\* the validation of removeItem rejects the index (line 305)
IndexRejected(index, c) ==
    ~IsNumberType(index) \/ LessThan(index, 0) \/ AtLeast(index, Len(c))

\* ToIntegerOrInfinity of an index that passed the validation
ToInteger(index) == IF index.t = "num" THEN index.n \div Scale ELSE 0

\* a splice without its count: cart.splice(index)
SpliceToEnd(c, index) == SubSeq(c, 1, ToInteger(index))

\* cart.splice(index, 1)
Splice(c, index) ==
    LET start == ToInteger(index)
    IN  [i \in 1..(Len(c) - 1) |-> IF i <= start THEN c[i] ELSE c[i + 1]]

\* the effect of addToCart(name, price) where `id` is the id it generates
addToCart(name, price, id) ==
    IF AddAccepts(name, price)
    THEN LET c == Push(cart, Item(name, ParsedPrice(price), id))
             ui == SaveAndUpdate(storageMode, page, c, cartTable, cartTotal)
         IN  /\ Len(cart) < MaxCart
             /\ cart' = c
             /\ storage' = saveCart(storageMode, c, storage)
             /\ cartTable' = ui.table
             /\ cartTotal' = ui.total
             /\ ev' = [NoEvent EXCEPT !.op = "add", !.name = name,
                                      !.price = price, !.id = id,
                                      !.accepted = TRUE,
                                      !.threw = ui.threw]
    ELSE /\ UNCHANGED cartVars
         /\ ev' = [NoEvent EXCEPT !.op = "add", !.name = name,
                                  !.price = price]

\* the effect of removeItem(index)
removeItem(index) ==
    IF IndexRejected(index, cart)
    THEN /\ UNCHANGED cartVars
         /\ ev' = [NoEvent EXCEPT !.op = "remove", !.index = index]
    ELSE LET c == Splice(cart, index)
             ui == SaveAndUpdate(storageMode, page, c, cartTable, cartTotal)
         IN  /\ cart' = c
             /\ storage' = saveCart(storageMode, c, storage)
             /\ cartTable' = ui.table
             /\ cartTotal' = ui.total
             /\ ev' = [NoEvent EXCEPT !.op = "remove", !.index = index,
                                      !.accepted = TRUE,
                                      !.threw = ui.threw]

\* a clearCart that shows the prompt and does not look at the answer
clearCartWhateverAnswer(answer) ==
    IF Len(cart) = 0
    THEN /\ UNCHANGED cartVars
         /\ ev' = [NoEvent EXCEPT !.op = "clear"]
    ELSE LET ui == updateCartUI(page, <<>>, cartTable, cartTotal)
         IN  /\ cart' = <<>>
             /\ storage' = saveCart(storageMode, <<>>, storage)
             /\ cartTable' = ui.table
             /\ cartTotal' = ui.total
             /\ ev' = [NoEvent EXCEPT !.op = "clear", !.prompted = TRUE,
                                      !.confirmed = answer]

\* the effect of clearCart() where the user answers the prompt with `answer`
clearCart(answer) ==
    IF Len(cart) = 0
    THEN /\ UNCHANGED cartVars
         /\ ev' = [NoEvent EXCEPT !.op = "clear"]
    ELSE IF answer
    THEN LET ui == SaveAndUpdate(storageMode, page, <<>>, cartTable, cartTotal)
         IN  /\ cart' = <<>>
             /\ storage' = saveCart(storageMode, <<>>, storage)
             /\ cartTable' = ui.table
             /\ cartTotal' = ui.total
             /\ ev' = [NoEvent EXCEPT !.op = "clear", !.prompted = TRUE,
                                      !.confirmed = TRUE,
                                      !.threw = ui.threw]
    ELSE /\ UNCHANGED cartVars
         /\ ev' = [NoEvent EXCEPT !.op = "clear", !.prompted = TRUE]

\* ------------------------------------------------------------------------
\* Gallery modal
\* ------------------------------------------------------------------------
Art1 == Str(<<"a", "r", "t", "1">>)
Art2 == Str(<<"a", "r", "t", "2">>)
Autumn == Str(<<"A", "u", "t", "u", "m", "n">>)
Winter == Str(<<"W", "i", "n", "t", "e", "r">>)

\* .gallery-item elements: data-full and data-caption (Null: no attribute)
Thumbs ==
    { <<Art1, Autumn>>, <<Art2, Null>>, <<Art2, Winter>>, <<Art1, EmptyStr>>,
      <<Null, Autumn>>, <<EmptyStr, Null>> }

GalleryPage ==
    {"gallery-item", "modal-overlay", "modal-image", "modal-caption",
     "modal-close"}
GalleryPages ==
    { GalleryPage, GalleryPage \ {"modal-caption"},
      GalleryPage \ {"modal-close"}, GalleryPage \ {"modal-overlay"},
      GalleryPage \ {"modal-image"} }

\* an openModal that leaves the caption element alone when there is no caption
openModalStaleCaption(pg, src, caption, m) ==
    IF "modal-overlay" \notin pg \/ "modal-image" \notin pg THEN m
    ELSE [m EXCEPT
            !.imageSrc = src,
            !.captionText = IF "modal-caption" \in pg /\ Truthy(caption)
                            THEN caption ELSE @,
            !.captionDisplay = IF "modal-caption" \in pg /\ Truthy(caption)
                               THEN "block" ELSE @,
            !.overlayDisplay = "flex",
            !.bodyOverflow = "hidden",
            !.focused = IF "modal-close" \in pg THEN "modal-close" ELSE @]

\* the modal's state when openModal(src, caption) returns
openModal(pg, src, caption, m) ==
    IF "modal-overlay" \notin pg \/ "modal-image" \notin pg THEN m
    ELSE [m EXCEPT
            !.imageSrc = src,
            !.captionText = IF "modal-caption" \in pg /\ Truthy(caption)
                            THEN caption ELSE @,
            !.captionDisplay = IF "modal-caption" \in pg
                               THEN (IF Truthy(caption) THEN "block" ELSE "none")
                               ELSE @,
            !.overlayDisplay = "flex",
            !.bodyOverflow = "hidden",
            !.focused = IF "modal-close" \in pg THEN "modal-close" ELSE @]

\* a closeModal that hides the overlay and leaves the body's overflow
closeModalKeepsScrollLock(pg, m) ==
    IF "modal-overlay" \notin pg THEN m
    ELSE [m EXCEPT
            !.overlayDisplay = "none",
            !.imageSrc = IF "modal-image" \in pg THEN EmptyStr ELSE @]

\* a closeModal that hides the overlay and leaves the image source
closeModalKeepsImage(pg, m) ==
    IF "modal-overlay" \notin pg THEN m
    ELSE [m EXCEPT !.overlayDisplay = "none", !.bodyOverflow = ""]

\* the modal's state when closeModal() returns
closeModal(pg, m) ==
    IF "modal-overlay" \notin pg THEN m
    ELSE [m EXCEPT
            !.overlayDisplay = "none",
            !.bodyOverflow = "",
            !.imageSrc = IF "modal-image" \in pg THEN EmptyStr ELSE @]

\* the modal variables as a record, and back
Modal ==
    [overlayDisplay |-> overlayDisplay, imageSrc |-> imageSrc,
     captionText |-> captionText, captionDisplay |-> captionDisplay,
     bodyOverflow |-> bodyOverflow, focused |-> focused]
SetModal(m) ==
    /\ overlayDisplay' = m.overlayDisplay
    /\ imageSrc' = m.imageSrc
    /\ captionText' = m.captionText
    /\ captionDisplay' = m.captionDisplay
    /\ bodyOverflow' = m.bodyOverflow
    /\ focused' = m.focused

\* the modal of a page that has just been parsed
FreshModal ==
    [overlayDisplay |-> "", imageSrc |-> EmptyStr, captionText |-> EmptyStr,
     captionDisplay |-> "", bodyOverflow |-> "", focused |-> "body"]

\* click on a .gallery-item (listener of initGalleryModal)
ThumbClick ==
    /\ "gallery" \in installed
    /\ \E th \in Thumbs :
        /\ SetModal(IF Truthy(th[1]) THEN openModal(page, th[1], th[2], Modal)
                    ELSE Modal)
        /\ ev' = [NoEvent EXCEPT !.op = "thumb", !.src = th[1],
                                 !.caption = th[2]]
    /\ UNCHANGED <<cartVars, envVars, siteVars>>

\* click on #modal-close
CloseClick ==
    /\ "gallery" \in installed
    /\ "modal-close" \in page
    /\ SetModal(closeModal(page, Modal))
    /\ ev' = [NoEvent EXCEPT !.op = "closeClick", !.target = "modal-close"]
    /\ UNCHANGED <<cartVars, envVars, siteVars>>

\* click inside #modal-overlay whose target is the overlay or one of its
\* children
OverlayClick ==
    /\ "gallery" \in installed
    /\ "modal-overlay" \in page
    /\ \E target \in {"modal-overlay", "modal-image", "modal-caption"} \cap page :
        /\ SetModal(IF target = "modal-overlay" THEN closeModal(page, Modal)
                    ELSE Modal)
        /\ ev' = [NoEvent EXCEPT !.op = "overlayClick", !.target = target]
    /\ UNCHANGED <<cartVars, envVars, siteVars>>

\* keydown on the document
KeyDown ==
    /\ "gallery" \in installed
    /\ \E key \in {"Escape", "Enter"} :
        /\ SetModal(IF key = "Escape" /\ "modal-overlay" \in page
                       /\ overlayDisplay = "flex"
                    THEN closeModal(page, Modal) ELSE Modal)
        /\ ev' = [NoEvent EXCEPT !.op = "keydown", !.key = key,
                                 !.accepted = (key = "Escape"
                                               /\ "modal-overlay" \in page
                                               /\ overlayDisplay = "flex")]
    /\ UNCHANGED <<cartVars, envVars, siteVars>>

\* ------------------------------------------------------------------------
\* Navigation
\* ------------------------------------------------------------------------
IndexHtml == <<"i", "n", "d", "e", "x", ".", "h", "t", "m", "l">>
GalleryHtml == <<"g", "a", "l", "l", "e", "r", "y", ".", "h", "t", "m", "l">>

\* s.split('/').pop(): the characters after the last '/'
SplitPop(s) ==
    LET slashes == {i \in 1..Len(s) : s[i] = "/"}
        last == IF slashes = {} THEN 0
                ELSE CHOOSE i \in slashes : \A j \in slashes : j <= i
    IN  SubSeq(s, last + 1, Len(s))

\* x || 'index.html' for a string x
OrIndexHtml(s) == IF Len(s) = 0 THEN IndexHtml ELSE s

\* setActiveNav() on page pg at pathname path: the links of #main-nav, a
\* sequence of [href, active], with their 'active' class set anew
setActiveNav(pg, path, links) ==
    IF "main-nav" \notin pg \/ Len(links) = 0
    THEN links
    ELSE LET currentPage == OrIndexHtml(SplitPop(path.s))
         IN  [i \in 1..Len(links) |->
                LET linkHref == IF Truthy(links[i].href) THEN links[i].href.s
                                ELSE <<>>
                    linkPage == OrIndexHtml(SplitPop(linkHref))
                IN  [links[i] EXCEPT !.active =
                        \/ linkPage = currentPage
                        \/ /\ currentPage = <<>> \/ currentPage = <<"/">>
                           /\ \/ linkPage = IndexHtml
                              \/ linkPage = <<>>
                              \/ linkHref = <<"/">>]]

\* String(b), as setAttribute stores a boolean
BoolText(b) == IF b THEN "true" ELSE "false"

\* a toggle listener that writes the state it read, not its negation
navToggleClickStaleAria(nav, toggle) ==
    [nav |-> [nav EXCEPT !.active = ~nav.active],
     toggle |-> [active |-> ~toggle.active,
                 ariaExpanded |-> BoolText(nav.active)]]

\* the click listener of #nav-toggle
navToggleClick(nav, toggle) ==
    LET isExpanded == nav.active
    IN  [nav |-> [nav EXCEPT !.active = ~nav.active],
         toggle |-> [active |-> ~toggle.active,
                     ariaExpanded |-> BoolText(~isExpanded)]]

\* the click listener of a link of #main-nav
navLinkClick(nav, toggle) ==
    IF nav.active
    THEN [nav |-> [nav EXCEPT !.active = FALSE],
          toggle |-> [active |-> FALSE, ariaExpanded |-> "false"]]
    ELSE [nav |-> nav, toggle |-> toggle]

\* ------------------------------------------------------------------------
\* Form validation
\* ------------------------------------------------------------------------
WhiteSpace == {" ", "\t", "\n"}

\* s.trim()
Trim(s) ==
    LET solid == {i \in 1..Len(s) : s[i] \notin WhiteSpace}
    IN  IF solid = {} THEN <<>>
        ELSE SubSeq(s, CHOOSE i \in solid : \A j \in solid : i <= j,
                       CHOOSE i \in solid : \A j \in solid : j <= i)

\* the submit listener of a form whose fields are a sequence of
\* [id, required, value, error]: the fields after the pass over the required
\* ones, whether preventDefault() was called, and the element that got focus
\* ("" for none)
submitListener(fields) ==
    LET blank(f) == Len(Trim(f.value)) = 0
        marked == [i \in 1..Len(fields) |->
                     IF fields[i].required
                     THEN [fields[i] EXCEPT !.error = blank(fields[i])]
                     ELSE fields[i]]
        isValid == \A i \in 1..Len(fields) :
                      fields[i].required => ~blank(fields[i])
        errors == {i \in 1..Len(fields) : marked[i].error}
    IN  [fields |-> marked,
         prevented |-> ~isValid,
         focus |-> IF ~isValid /\ errors # {}
                   THEN marked[CHOOSE i \in errors : \A j \in errors : i <= j].id
                   ELSE ""]

\* ------------------------------------------------------------------------
\* Pages with navigation and forms
\* ------------------------------------------------------------------------
NoNav == [active |-> FALSE, links |-> <<>>]
NoToggle == [active |-> FALSE, ariaExpanded |-> "absent"]

\* the markup of a page without navigation and forms
PlainMarkup ==
    [location |-> Str(<<"/", "s", "t", "o", "r", "e">>), mainNav |-> NoNav,
     navToggle |-> NoToggle, forms |-> <<>>]

\* window.location.pathname
Paths ==
    { Str(<<"/">>), Str(<<"/">> \o IndexHtml), Str(<<"/">> \o GalleryHtml),
      Str(<<"/", "a", "p", "p", "s", "/">>) }

Link(href, active) == [href |-> href, active |-> active]

\* the links of #main-nav as the markup has them (Null: no href attribute)
LinkMarkups ==
    { <<Link(Str(IndexHtml), TRUE), Link(Str(GalleryHtml), FALSE)>>,
      <<Link(Str(<<"/">>), FALSE),
        Link(Str(GalleryHtml \o <<"#", "a", "r", "t">>), TRUE),
        Link(Str(<<".", ".", "/">> \o IndexHtml), FALSE)>>,
      <<Link(Null, FALSE), Link(Str(<<"a", "p", "p", "s", "/">>), FALSE)>>,
      <<>> }

\* the menu as the markup has it: class of #main-nav, class and aria-expanded
\* of #nav-toggle
MenuMarkups ==
    { <<FALSE, [active |-> FALSE, ariaExpanded |-> "false"]>>,
      <<FALSE, [active |-> FALSE, ariaExpanded |-> "absent"]>>,
      <<TRUE, [active |-> TRUE, ariaExpanded |-> "absent"]>>,
      <<TRUE, [active |-> FALSE, ariaExpanded |-> "false"]>> }

NavPage == {"nav-toggle", "main-nav"}

\* pages with a menu: all of its elements, no #nav-toggle, no #main-nav
NavPages ==
    { <<pg, [location |-> path,
             mainNav |-> IF "main-nav" \in pg
                         THEN [active |-> m[1], links |-> links] ELSE NoNav,
             navToggle |-> IF "nav-toggle" \in pg THEN m[2] ELSE NoToggle,
             forms |-> <<>>]>> :
        pg \in {NavPage, {"main-nav"}, {"nav-toggle"}}, path \in Paths,
        links \in LinkMarkups, m \in MenuMarkups }

Field(id, required) ==
    [id |-> id, required |-> required, value |-> <<>>, error |-> FALSE]

\* two forms: three fields of which the last two are required, and one
\* required field
ContactForms ==
    << [id |-> "contact",
        fields |-> <<Field("nick", FALSE), Field("name", TRUE),
                     Field("email", TRUE)>>],
       [id |-> "search", fields |-> <<Field("q", TRUE)>>] >>

\* what a user types into a field
FieldValues == { <<>>, <<" ">>, <<" ", "a", " ">> }

\* pages with forms: alone, and next to a cart table
FormPages ==
    { <<pg, [PlainMarkup EXCEPT !.forms = ContactForms]>> :
        pg \in { {}, {"cart-table", "cart-total"} } }

\* the browsers the pages with forms are loaded in
FormBrowsers ==
    { <<"ok", NoEntry>>,
      <<"ok", ArrayText(<<StringifyElem(Item(Sunset, Num(25 * Scale),
                                         Str(<<"k", "1">>)))>>)>>,
      <<"ok", ArrayText(<<StringifyElem(NullElem)>>)>> }

\* the navigation and the forms of page pg after its DOMContentLoaded
\* handler: setActiveNav has marked the links
Site(pg, m) ==
    [m EXCEPT !.mainNav.links = setActiveNav(pg, m.location, m.mainNav.links)]

SiteIs(s) ==
    /\ location = s.location
    /\ mainNav = s.mainNav
    /\ navToggle = s.navToggle
    /\ toggleClicked = FALSE
    /\ forms = s.forms
SetSite(s) ==
    /\ location' = s.location
    /\ mainNav' = s.mainNav
    /\ navToggle' = s.navToggle
    /\ toggleClicked' = FALSE
    /\ forms' = s.forms

\* ------------------------------------------------------------------------
\* Page load and the cart events
\* ------------------------------------------------------------------------
\* The DOMContentLoaded handler on a freshly parsed page pg: the listeners it
\* installs, the cart it loads, the table it renders.  An exception in
\* updateCartUI ends the handler before initCartButtons.
DOMContentLoaded(pg, mode, st) ==
    LET c == loadCart(mode, st)
        ui == updateCartUI(pg, c, <<>>, <<>>)
    IN  [cart |-> c, table |-> ui.table, total |-> ui.total,
         threw |-> ui.threw,
         installed |->
            (IF {"nav-toggle", "main-nav"} \subseteq pg THEN {"nav"} ELSE {})
            \cup (IF "gallery-item" \in pg THEN {"gallery"} ELSE {})
            \cup (IF ~ui.threw /\ "add-to-cart" \in pg
                  THEN {"cartButtons"} ELSE {})
            \cup (IF ~ui.threw /\ "clear-cart-btn" \in pg
                  THEN {"clearButton"} ELSE {})
            \cup (IF ~ui.threw THEN {"forms"} ELSE {})]

\* the page pg is loaded in a browser whose storage holds st
PageState(pg, mode, st) ==
    LET d == DOMContentLoaded(pg, mode, st)
    IN  /\ cart = d.cart
        /\ storage = st
        /\ storageMode = mode
        /\ page = pg
        /\ cartTable = d.table
        /\ cartTotal = d.total
        /\ installed = d.installed
        /\ overlayDisplay = FreshModal.overlayDisplay
        /\ imageSrc = FreshModal.imageSrc
        /\ captionText = FreshModal.captionText
        /\ captionDisplay = FreshModal.captionDisplay
        /\ bodyOverflow = FreshModal.bodyOverflow
        /\ focused = FreshModal.focused
        /\ ev = [NoEvent EXCEPT !.op = "load", !.threw = d.threw]

Init ==
    \E pg \in StorePages, b \in Browsers :
        /\ PageState(pg, b[1], b[2])
        /\ SiteIs(Site(pg, PlainMarkup))

ModalInit ==
    \E pg \in GalleryPages :
        /\ PageState(pg, "ok", NoEntry)
        /\ SiteIs(Site(pg, PlainMarkup))

\* the user reloads the page or follows a link to another page of the site;
\* a page is its elements and the markup of its navigation and forms
PageLoad(pages) ==
    \E l \in pages :
        LET pg == l[1]
            d == DOMContentLoaded(pg, storageMode, storage)
        IN  /\ cart' = d.cart
            /\ page' = pg
            /\ SetSite(Site(pg, l[2]))
            /\ cartTable' = d.table
            /\ cartTotal' = d.total
            /\ installed' = d.installed
            /\ SetModal(FreshModal)
            /\ ev' = [NoEvent EXCEPT !.op = "load", !.threw = d.threw]
            /\ UNCHANGED <<storage, storageMode>>

StorePageLoad == PageLoad(StorePages \X {PlainMarkup})
GalleryPageLoad == PageLoad(GalleryPages \X {PlainMarkup})

\* a script calls addToCart(name, price)
AddToCartCall ==
    /\ \E r \in AddRequests :
        \E id \in (IF AddAccepts(r[1], r[2]) THEN GenIds ELSE {Undefined}) :
            addToCart(r[1], r[2], id)
    /\ UNCHANGED <<envVars, modalVars, siteVars>>

\* click on an .add-to-cart button (listener of initCartButtons)
AddButtonClick ==
    /\ "cartButtons" \in installed
    /\ \E b \in Buttons :
        IF ~Truthy(b[1]) \/ ~Truthy(b[2])
        THEN /\ UNCHANGED cartVars
             /\ ev' = [NoEvent EXCEPT !.op = "addClick", !.name = b[1],
                                      !.price = b[2]]
        ELSE \E id \in (IF AddAccepts(b[1], b[2]) THEN GenIds ELSE {Undefined}) :
                addToCart(b[1], b[2], id)
    /\ UNCHANGED <<envVars, modalVars, siteVars>>

\* a script calls removeItem(index)
RemoveItemCall ==
    /\ \E index \in IndexInputs : removeItem(index)
    /\ UNCHANGED <<envVars, modalVars, siteVars>>

\* click on the remove button of a row of the cart table
RemoveButtonClick ==
    /\ \E r \in 1..Len(cartTable) :
        /\ cartTable[r].cls = "cart-item"
        /\ removeItem(Num(cartTable[r].index * Scale))
    /\ UNCHANGED <<envVars, modalVars, siteVars>>

\* clearCart() runs, from the #clear-cart-btn listener or from a script,
\* and the user answers the prompt, if one is shown
ClearCart ==
    /\ \E answer \in BOOLEAN : clearCart(answer)
    /\ UNCHANGED <<envVars, modalVars, siteVars>>

Next ==
    \/ StorePageLoad
    \/ AddToCartCall
    \/ AddButtonClick
    \/ RemoveItemCall
    \/ RemoveButtonClick
    \/ ClearCart

Spec == Init /\ [][Next]_vars

ModalNext ==
    \/ GalleryPageLoad
    \/ ThumbClick
    \/ CloseClick
    \/ OverlayClick
    \/ KeyDown

ModalSpec == ModalInit /\ [][ModalNext]_vars

\* ------------------------------------------------------------------------
\* The menu and the forms
\* ------------------------------------------------------------------------
NavInit ==
    \E l \in NavPages :
        /\ PageState(l[1], "ok", NoEntry)
        /\ SiteIs(Site(l[1], l[2]))

NavPageLoad == PageLoad(NavPages)

\* click on #nav-toggle
NavToggleClick ==
    /\ "nav-toggle" \in page
    /\ LET n == IF "nav" \in installed THEN navToggleClick(mainNav, navToggle)
                ELSE [nav |-> mainNav, toggle |-> navToggle]
       IN  /\ mainNav' = n.nav
           /\ navToggle' = n.toggle
    /\ toggleClicked' = TRUE
    /\ ev' = [NoEvent EXCEPT !.op = "toggleClick", !.target = "nav-toggle"]
    /\ UNCHANGED <<cartVars, envVars, modalVars, location, forms>>

\* click on a link of #main-nav
NavLinkClick ==
    /\ "main-nav" \in page
    /\ \E i \in 1..Len(mainNav.links) :
        LET n == IF "nav" \in installed THEN navLinkClick(mainNav, navToggle)
                 ELSE [nav |-> mainNav, toggle |-> navToggle]
        IN  /\ mainNav' = n.nav
            /\ navToggle' = n.toggle
            /\ ev' = [NoEvent EXCEPT !.op = "linkClick", !.target = "main-nav",
                                     !.index = Num(i * Scale),
                                     !.accepted = ("nav" \in installed
                                                   /\ mainNav.active)]
    /\ UNCHANGED <<cartVars, envVars, modalVars, location, toggleClicked,
                   forms>>

NavNext ==
    \/ NavPageLoad
    \/ NavToggleClick
    \/ NavLinkClick

NavSpec == NavInit /\ [][NavNext]_vars

FormInit ==
    \E l \in FormPages, b \in FormBrowsers :
        /\ PageState(l[1], b[1], b[2])
        /\ SiteIs(Site(l[1], l[2]))

FormPageLoad == PageLoad(FormPages)

\* the user types into a field of a form
FormInput ==
    /\ \E f \in 1..Len(forms) : \E i \in 1..Len(forms[f].fields) :
        \E v \in FieldValues :
            /\ forms' = [forms EXCEPT ![f].fields[i].value = v]
            /\ ev' = [NoEvent EXCEPT !.op = "input", !.target = forms[f].id]
    /\ UNCHANGED <<cartVars, envVars, modalVars, location, mainNav, navToggle,
                   toggleClicked>>

\* the user submits a form; accepted: the submission goes on
FormSubmit ==
    /\ \E f \in 1..Len(forms) :
        LET r == IF "forms" \in installed THEN submitListener(forms[f].fields)
                 ELSE [fields |-> forms[f].fields, prevented |-> FALSE,
                       focus |-> ""]
        IN  /\ forms' = [forms EXCEPT ![f].fields = r.fields]
            /\ focused' = IF r.focus # "" THEN r.focus ELSE focused
            /\ ev' = [NoEvent EXCEPT !.op = "submit", !.target = forms[f].id,
                                     !.accepted = ~r.prevented]
    /\ UNCHANGED <<cartVars, envVars, overlayDisplay, imageSrc, captionText,
                   captionDisplay, bodyOverflow, location, mainNav, navToggle,
                   toggleClicked>>

\* ------------------------------------------------------------------------
\* Pages with missing markup
\* ------------------------------------------------------------------------
\* pages with add buttons and thumbnails, without #cart-table and
\* #cart-total, and without #modal-overlay, #modal-image or both
BarePage ==
    {"add-to-cart", "clear-cart-btn", "gallery-item", "modal-caption",
     "modal-close"}
BarePages ==
    { BarePage, BarePage \cup {"modal-overlay"}, BarePage \cup {"modal-image"} }

\* the browsers the pages with missing markup are loaded in
BareBrowsers ==
    { <<"ok", NoEntry>>,
      <<"ok", ArrayText(<<StringifyElem(Item(Sunset, Num(25 * Scale),
                                         Str(<<"k", "1">>)))>>)>>,
      <<"ok", ArrayText(<<StringifyElem(NullElem)>>)>>,
      <<"throws", NoEntry>> }

BareInit ==
    \E pg \in BarePages, b \in BareBrowsers :
        /\ PageState(pg, b[1], b[2])
        /\ SiteIs(Site(pg, PlainMarkup))

BarePageLoad == PageLoad(BarePages \X {PlainMarkup})

BareNext ==
    \/ BarePageLoad
    \/ AddToCartCall
    \/ AddButtonClick
    \/ RemoveItemCall
    \/ ClearCart
    \/ ThumbClick
    \/ CloseClick
    \/ OverlayClick
    \/ KeyDown

BareSpec == BareInit /\ [][BareNext]_vars

FormNext ==
    \/ FormPageLoad
    \/ FormInput
    \/ FormSubmit

FormSpec == FormInit /\ [][FormNext]_vars

\* ------------------------------------------------------------------------
\* Vocabulary of the properties
\* ------------------------------------------------------------------------
\* a name that is a non-empty string
NonEmptyName(v) == v.t = "str" /\ Len(v.s) > 0

\* a string that is, as a whole, the text of a number
NumericString(s) ==
    /\ NumericPrefix(s).val.t # "nan"
    /\ NumericPrefix(s).end = Len(s) + 1

\* the number a numeric price stands for: the number itself, or the number
\* the numeric string spells
NumericPrice(v) == v.t \in {"num", "inf", "-inf"} \/ (v.t = "str" /\ NumericString(v.s))
PriceValue(v) == IF v.t = "str" THEN NumericPrefix(v.s).val ELSE v
NonNegative(x) == x.t = "inf" \/ (x.t = "num" /\ x.n >= 0)

\* a request add(name, price) the cart has to take
GoodRequest(name, price) ==
    NonEmptyName(name) /\ NumericPrice(price) /\ NonNegative(PriceValue(price))

\* a request the cart has to refuse: the name is empty or missing, or the
\* price is negative or not numeric
BadRequest(name, price) ==
    \/ ~NonEmptyName(name)
    \/ ~NumericPrice(price)
    \/ ~NonNegative(PriceValue(price))

\* every element of c is an object whose price is a number
NumberPrices(c) ==
    \A i \in 1..Len(c) : c[i].k = "object" /\ IsNumberType(c[i].price)

\* index is a position of c: an integer i with 0 <= i < Len(c)
ValidPosition(index, c) ==
    /\ index.t = "num"
    /\ index.n % Scale = 0
    /\ 0 <= index.n
    /\ index.n \div Scale < Len(c)

\* the cart a stored text holds: what a working localStorage gives loadCart
PersistedCart(st) == loadCart("ok", st)

\* c without its element at the 0-based position i
WithoutPosition(c, i) == SubSeq(c, 1, i) \o SubSeq(c, i + 2, Len(c))

\* ------------------------------------------------------------------------
\* Properties
\* ------------------------------------------------------------------------
\* C1: addToCart(name, price) with a non-empty name and a price that is a
\* number or a numeric string and is >= 0 appends exactly one item
\* {name, the price as a number, id} at the end of the cart: the length grows
\* by one, the items before keep their places, and (where the prices before
\* are numbers) the sum of the prices grows by that price.
C1_AddAppendsOneItem ==
    [][ (ev'.op = "add" /\ GoodRequest(ev'.name, ev'.price)) =>
            /\ ev'.accepted
            /\ Len(cart') = Len(cart) + 1
            /\ SubSeq(cart', 1, Len(cart)) = cart
            /\ cart'[Len(cart')] =
                   Item(ev'.name, PriceValue(ev'.price), ev'.id)
            /\ (NumberPrices(cart) =>
                   SumPrices(cart', Len(cart')) =
                       Plus(SumPrices(cart, Len(cart)), PriceValue(ev'.price)))
      ]_vars

\* a string price was added behind an item the cart already had
C1_Witness ==
    /\ ev.op = "add"
    /\ GoodRequest(ev.name, ev.price)
    /\ ev.price.t = "str"
    /\ Len(cart) = 2
    /\ cart[2] = Item(ev.name, PriceValue(ev.price), ev.id)
    /\ cart[1].name # cart[2].name

\* C2: an add request whose name is empty or missing, or whose price is
\* negative or not numeric, changes neither the cart nor the stored cart.
C2_BadRequestChangesNothing ==
    [][ (ev'.op \in {"add", "addClick"} /\ BadRequest(ev'.name, ev'.price)) =>
            (cart' = cart /\ PersistedCart(storage') = PersistedCart(storage))
      ]_vars

\* C3: removeItem(i) with 0 <= i < n on a cart of length n leaves the cart
\* without the item at position i: length n - 1, the other items kept in
\* their order.
C3_RemoveTakesThatItem ==
    [][ (ev'.op = "remove" /\ ValidPosition(ev'.index, cart)) =>
            /\ ev'.accepted
            /\ Len(cart') = Len(cart) - 1
            /\ cart' = WithoutPosition(cart, ev'.index.n \div Scale)
      ]_vars

\* the first of two items was removed and the second is what is left
C3_Witness ==
    /\ ev.op = "remove"
    /\ ev.accepted
    /\ ev.index = Num(0)
    /\ Len(cart) = 1
    /\ storageMode = "ok"
    /\ storage = ArrayText(Stringify(cart))

\* C4: removeItem(index) with an index that is no position of the cart
\* (negative, >= the length, not an integer, not a number, NaN) changes
\* neither the cart nor the stored cart.
C4_InvalidIndexChangesNothing ==
    [][ (ev'.op = "remove" /\ ~ValidPosition(ev'.index, cart)) =>
            (cart' = cart /\ PersistedCart(storage') = PersistedCart(storage))
      ]_vars

\* C5 as stated: clearCart on a non-empty cart, confirmed by the user, leaves
\* the cart empty and the stored cart empty; clearCart on an empty cart shows
\* no prompt and changes nothing.
C5_ClearEmptiesCartAndStorage ==
    [][ ev'.op = "clear" =>
            /\ (Len(cart) > 0 /\ ev'.confirmed) =>
                   (cart' = <<>> /\ PersistedCart(storage') = <<>>)
            /\ Len(cart) = 0 => (~ev'.prompted /\ UNCHANGED cartVars)
      ]_vars

\* C5 as amended: clearCart on a non-empty cart, confirmed by the user,
\* leaves the cart empty and, where localStorage is available and its write
\* succeeds, the stored text that of the empty array; clearCart on an empty
\* cart shows no prompt and changes nothing.
C5_ClearEmptiesCartAndWritableStorage ==
    [][ ev'.op = "clear" =>
            /\ (Len(cart) > 0 /\ ev'.confirmed) =>
                   /\ cart' = <<>>
                   /\ storageMode = "ok" => storage' = ArrayText(<<>>)
            /\ Len(cart) = 0 => (~ev'.prompted /\ UNCHANGED cartVars)
      ]_vars

\* a confirmed clear has emptied the cart and the stored array
C5_Witness ==
    /\ ev.op = "clear"
    /\ ev.prompted
    /\ ev.confirmed
    /\ storageMode = "ok"
    /\ cart = <<>>
    /\ storage = ArrayText(<<>>)

\* C6: with storage available, saveCart followed by loadCart gives back the
\* cart that was saved: the same items, with the same name, price and id, in
\* the same order.
C6_SaveThenLoadIsIdentity ==
    storageMode = "ok" =>
        loadCart(storageMode, saveCart(storageMode, cart, storage)) = cart

\* a stored text that is a well-formed sequence of items: readable, an array,
\* every element an object that has a name, a price and an id
ItemText(d) ==
    d.k = "object" /\ d.name.t # "absent" /\ d.price.t # "absent"
        /\ d.id.t # "absent"
WellFormedStored(mode, st) ==
    /\ mode \in {"ok", "quota"}
    /\ st.k = "array"
    /\ \A i \in 1..Len(st.elems) : ItemText(st.elems[i])

\* C7: after loadCart, a stored value that is absent, unreadable or not a
\* well-formed sequence of items has given the empty cart.  (loadCart has no
\* throwing outcome: its whole body is inside try/catch.)
C7_MalformedLoadsEmpty ==
    (ev.op = "load" /\ ~WellFormedStored(storageMode, storage)) => cart = <<>>

\* C8: with storage available and writes succeeding, after the page's
\* initialization and after every add, remove and clear, loading from the
\* storage gives exactly the cart in memory.
C8_StorageInSync ==
    storageMode = "ok" => PersistedCart(storage) = cart

\* a text that ends in a point and two digits
TwoDecimals(txt) ==
    /\ Len(txt) >= 4
    /\ txt[Len(txt) - 2] = "."
    /\ IsDigit(txt[Len(txt) - 1])
    /\ IsDigit(txt[Len(txt)])

\* C9: on a page with the cart table and the total, the view is a function of
\* the cart: one row per item, in order, with its name and price, or the one
\* placeholder row of the empty cart; and the total shown is the sum of the
\* prices with two decimals.
C9_ViewIsFunctionOfCart ==
    {"cart-table", "cart-total"} \subseteq page =>
        IF Len(cart) = 0
        THEN cartTable = <<PlaceholderRow>>
                /\ cartTotal = TotalLabel \o <<"0", ".", "0", "0">>
        ELSE /\ Len(cartTable) = Len(cart)
             /\ \A i \in 1..Len(cart) :
                    /\ cartTable[i].cls = "cart-item"
                    /\ cartTable[i].name = TextOf(cart[i].name)
                    /\ TwoDecimals(cartTable[i].price)
             /\ SubSeq(cartTotal, 1, Len(TotalLabel)) = TotalLabel
             /\ TwoDecimals(cartTotal)

\* what a thumbnail click has to do to the modal: with an image source, the
\* modal is open on that image, with the thumbnail's caption or with none;
\* without one, the modal, the image and the page scroll stay as they were
ThumbClickOpens ==
    IF Truthy(ev'.src)
    THEN /\ overlayDisplay' = "flex"
         /\ imageSrc' = ev'.src
         /\ IF Truthy(ev'.caption)
            THEN captionDisplay' = "block" /\ captionText' = ev'.caption
            ELSE captionDisplay' # "block"
    ELSE /\ overlayDisplay' = overlayDisplay
         /\ imageSrc' = imageSrc
         /\ bodyOverflow' = bodyOverflow

\* C10 as stated: from either state, a click on a thumbnail with an image
\* source opens the modal on that image, with the thumbnail's caption if it
\* has one and with no caption otherwise; a click on a thumbnail without an
\* image source changes nothing.
C10_ThumbClickOpensModal ==
    [][ ev'.op = "thumb" => ThumbClickOpens ]_vars

\* C10 as amended: the same, on a page that has the modal overlay, the modal
\* image and the caption element.
C10_ThumbClickOpensModalWithMarkup ==
    [][ (ev'.op = "thumb"
            /\ {"modal-overlay", "modal-image", "modal-caption"} \subseteq page)
        => ThumbClickOpens ]_vars

\* a thumbnail without caption was opened after one with a caption: the old
\* caption text is still in the element, and hidden
C10_Witness ==
    /\ ev.op = "thumb"
    /\ ev.src = Art2
    /\ ev.caption = Null
    /\ overlayDisplay = "flex"
    /\ imageSrc = Art2
    /\ captionText = Autumn
    /\ captionDisplay = "none"

\* the events that have to close an open modal
ClosingEvent(e) ==
    \/ e.op = "closeClick"
    \/ e.op = "overlayClick" /\ e.target = "modal-overlay"
    \/ e.op = "keydown" /\ e.key = "Escape"

\* C11: while the modal is open, a click on the close button, a click on the
\* overlay itself and an Escape key press each close it and clear the image
\* source; a click on the image or on another element inside the overlay
\* does not close it; an Escape key press while the modal is closed changes
\* nothing.
C11_ModalCloses ==
    [][ /\ (overlayDisplay = "flex" /\ ClosingEvent(ev')) =>
                (overlayDisplay' = "none" /\ imageSrc' = EmptyStr)
        /\ (overlayDisplay = "flex" /\ ev'.op = "overlayClick"
                /\ ev'.target # "modal-overlay") =>
                UNCHANGED modalVars
        /\ (overlayDisplay # "flex" /\ ev'.op = "keydown"
                /\ ev'.key = "Escape") =>
                UNCHANGED modalVars
      ]_vars

\* Escape has closed a modal that was open on a captioned image
C11_Witness ==
    /\ ev.op = "keydown"
    /\ ev.key = "Escape"
    /\ ev.accepted
    /\ overlayDisplay = "none"
    /\ imageSrc = EmptyStr
    /\ captionText = Autumn
    /\ bodyOverflow = ""

\* an element that is an item with a non-empty name and a price that is a
\* finite number >= 0
ProperItem(e) ==
    /\ e.k = "object"
    /\ NonEmptyName(e.name)
    /\ e.price.t = "num"
    /\ e.price.n >= 0

\* C12: in every reachable state every item of the cart has a non-empty name
\* and a price that is a finite number >= 0.
C12_ItemsAreProper ==
    \A i \in 1..Len(cart) : ProperItem(cart[i])

\* the listeners the page's markup calls for are installed
HandlersInstalled ==
    /\ "add-to-cart" \in page => "cartButtons" \in installed
    /\ "clear-cart-btn" \in page => "clearButton" \in installed
    /\ "forms" \in installed

\* C13: whatever the storage key holds, the page's initialization runs to its
\* end without an uncaught exception: after loadCart and the first
\* updateCartUI the add-to-cart, checkout/clear-cart and form-validation
\* listeners are installed.
C13_InitializationCompletes ==
    /\ ev.op = "load" => ~ev.threw
    /\ HandlersInstalled

\* localStorage is missing, or every access to it throws
StorageUnavailable == storageMode \in {"none", "throws"}

\* the table and the total are what updateCartUI makes of the cart
Rendered ==
    /\ cartTable' = updateCartUI(page, cart', cartTable, cartTotal).table
    /\ cartTotal' = updateCartUI(page, cart', cartTable, cartTotal).total

\* C14: with storage unavailable, or every storage access failing, no cart
\* operation ends with an uncaught exception, loadCart gives the empty cart,
\* and every valid add, valid remove and confirmed clear changes the cart in
\* memory and the rendered view as it does with storage available.
C14_CartWorksWithoutStorage ==
    [][ StorageUnavailable =>
            /\ ~ev'.threw
            /\ ev'.op = "load" => cart' = <<>>
            /\ (ev'.op = "add" /\ GoodRequest(ev'.name, ev'.price)) =>
                   /\ cart' = Append(cart, Item(ev'.name,
                                  PriceValue(ev'.price), ev'.id))
                   /\ Rendered
            /\ (ev'.op = "remove" /\ ValidPosition(ev'.index, cart)) =>
                   /\ cart' = WithoutPosition(cart, ev'.index.n \div Scale)
                   /\ Rendered
            /\ (ev'.op = "clear" /\ ev'.confirmed) =>
                   /\ cart' = <<>>
                   /\ Rendered
      ]_vars

\* with every storage access throwing, an item was added and rendered while
\* the storage kept its old content
C14_Witness ==
    /\ storageMode = "throws"
    /\ ev.op = "add"
    /\ ev.accepted
    /\ ~ev.threw
    /\ Len(cart) = 2
    /\ "cart-table" \in page
    /\ Len(cartTable) = 2
    /\ PersistedCart(storage) # cart

\* C18: in every reachable state the id of every item of the cart differs
\* from the id of every other item of the cart.
C18_IdsAreUnique ==
    \A i, j \in 1..Len(cart) : i # j => cart[i].id # cart[j].id

\* C19: on a page with a cart table, the remove button of every row carries
\* the index of the item the row shows: the row at place r shows the cart's
\* element r, its button's index is a position of the cart, and removeItem
\* with that index takes exactly that element out.
C19_RemoveButtonsAreCurrent ==
    "cart-table" \in page =>
        \A r \in 1..Len(cartTable) :
            cartTable[r].cls = "cart-item" =>
                LET index == Num(cartTable[r].index * Scale)
                IN  /\ r <= Len(cart)
                    /\ cartTable[r].name = TextOf(cart[r].name)
                    /\ cartTable[r].price = <<"$">> \o ToFixed2(cart[r].price)
                    /\ ~IndexRejected(index, cart)
                    /\ Splice(cart, index) = WithoutPosition(cart, r - 1)

\* the first row's button was clicked on a table of two rows, and the row
\* that is left shows the item that is left, with index 0
C19_Witness ==
    /\ "cart-table" \in page
    /\ ev.op = "remove"
    /\ ev.accepted
    /\ ev.index = Num(0)
    /\ Len(cart) = 1
    /\ Len(cartTable) = 1
    /\ cartTable[1].cls = "cart-item"
    /\ cartTable[1].index = 0
    /\ cartTable[1].name = TextOf(cart[1].name)

\* C20: clearCart on a non-empty cart, when the user declines the prompt,
\* leaves the cart, the stored cart and the rendered view as they were.
C20_DeclinedClearChangesNothing ==
    [][ (ev'.op = "clear" /\ Len(cart) > 0 /\ ~ev'.confirmed) =>
            /\ ev'.prompted
            /\ cart' = cart
            /\ storage' = storage
            /\ cartTable' = cartTable
            /\ cartTotal' = cartTotal
      ]_vars

\* the prompt was declined on a cart of two items, rendered in two rows
C20_Witness ==
    /\ ev.op = "clear"
    /\ ev.prompted
    /\ ~ev.confirmed
    /\ Len(cart) = 2
    /\ Len(cartTable) = 2
    /\ storageMode = "ok"
    /\ PersistedCart(storage) = cart

\* C15: on a page with the toggle button and the nav container, once the
\* toggle button was clicked its aria-expanded says whether the container
\* has the class 'active'; every toggle click flips that class, and a click
\* on a nav link while the menu is expanded leaves it collapsed.
C15_AriaMirrorsMenu ==
    [][ NavPage \subseteq page' =>
            /\ toggleClicked' =>
                   navToggle'.ariaExpanded = BoolText(mainNav'.active)
            /\ ev'.op = "toggleClick" => mainNav'.active = ~mainNav.active
            /\ (ev'.op = "linkClick" /\ mainNav.active) => ~mainNav'.active
      ]_vars

\* a nav link was clicked on a menu that a toggle click had expanded
C15_Witness ==
    /\ NavPage \subseteq page
    /\ toggleClicked
    /\ ev.op = "linkClick"
    /\ ev.accepted
    /\ ~mainNav.active
    /\ navToggle.ariaExpanded = "false"

\* a value that is blank after trimming
Blank(v) == \A i \in 1..Len(v) : v[i] \in WhiteSpace
InvalidFields(fields) ==
    {i \in 1..Len(fields) : fields[i].required /\ Blank(fields[i].value)}
FormOf(id) == CHOOSE f \in 1..Len(forms) : forms[f].id = id

\* C16: a submit is blocked exactly when a required field of the form is
\* blank after trimming; a blocked submit moves the focus to the first such
\* field of the form; a submit with no such field goes on and leaves no
\* field of the form marked as an error.
C16_SubmitBlockedIffBlank ==
    [][ ev'.op = "submit" =>
            LET f == FormOf(ev'.target)
                invalid == InvalidFields(forms[f].fields)
            IN  /\ ~ev'.accepted <=> invalid # {}
                /\ invalid # {} =>
                       focused' = forms[f].fields[
                           CHOOSE i \in invalid : \A j \in invalid : i <= j].id
                /\ invalid = {} =>
                       \A i \in 1..Len(forms'[f].fields) :
                           ~forms'[f].fields[i].error
      ]_vars

\* the path of a link target: the characters before the first '#' or '?'
PathOf(s) ==
    LET marks == {i \in 1..Len(s) : s[i] \in {"#", "?"}}
    IN  IF marks = {} THEN s
        ELSE SubSeq(s, 1, (CHOOSE i \in marks : \A j \in marks : i <= j) - 1)
LastSegment(s) == SplitPop(PathOf(s))
HomeSegment(seg) == seg = <<>> \/ seg = IndexHtml
SamePage(a, b) == a = b \/ (HomeSegment(a) /\ HomeSegment(b))
TargetOf(link) == IF link.href.t = "str" THEN link.href.s ELSE <<>>

\* C17: after setActiveNav a link of the nav is marked active exactly when
\* the last path segment of its target is the last path segment of the
\* current page path, an empty segment and 'index.html' being the same page.
C17_ActiveLinkIsCurrentPage ==
    \A i \in 1..Len(mainNav.links) :
        mainNav.links[i].active <=>
            SamePage(LastSegment(TargetOf(mainNav.links[i])),
                     LastSegment(location.s))

\* the modal is in its open state; scrolling of the page is suppressed
ModalOpen == overlayDisplay = "flex"
ScrollSuppressed == bodyOverflow = "hidden"

\* C21: after any sequence of thumbnail clicks, close-button clicks, overlay
\* clicks and key presses, scrolling of the page is suppressed exactly when
\* the modal is open.
C21_ScrollLockedIffOpen == ScrollSuppressed <=> ModalOpen

\* the close button has closed a modal that showed a captioned image, and
\* the page scrolls again
C21_Witness ==
    /\ ev.op = "closeClick"
    /\ ~ModalOpen
    /\ overlayDisplay = "none"
    /\ ~ScrollSuppressed
    /\ captionDisplay = "block"

\* the page has neither the cart table nor the total element
NoCartView == "cart-table" \notin page /\ "cart-total" \notin page
\* the page lacks the modal overlay or the modal image
NoModal == "modal-overlay" \notin page \/ "modal-image" \notin page

\* C22: on a page without the cart table and the total element, add, remove
\* and clear change the cart and the stored text as they do on a page with
\* them (the item is appended, the position is taken out, the cart is
\* emptied, and saveCart writes the new cart), nothing is rendered and no
\* exception comes out; on a page without the modal overlay or the modal
\* image, a thumbnail click leaves the modal closed and the page scrolling,
\* without an exception.
C22_MissingMarkupDisablesOnlyItsFeature ==
    [][ /\ NoCartView =>
            /\ (ev'.op = "add" /\ GoodRequest(ev'.name, ev'.price)) =>
                   cart' = Append(cart, Item(ev'.name, PriceValue(ev'.price),
                                             ev'.id))
            /\ (ev'.op = "remove" /\ ValidPosition(ev'.index, cart)) =>
                   cart' = WithoutPosition(cart, ev'.index.n \div Scale)
            /\ (ev'.op = "clear" /\ Len(cart) > 0 /\ ev'.confirmed) =>
                   cart' = <<>>
            /\ (ev'.op \in {"add", "remove", "clear"} /\ cart' # cart) =>
                   storage' = saveCart(storageMode, cart', storage)
            /\ ev'.op \in {"add", "remove", "clear", "addClick"} =>
                   /\ ~ev'.threw
                   /\ cartTable' = cartTable
                   /\ cartTotal' = cartTotal
        /\ (NoModal /\ ev'.op = "thumb") =>
               /\ ~ModalOpen'
               /\ ~ScrollSuppressed'
               /\ ~ev'.threw
      ]_vars

\* a thumbnail with an image was clicked on a page without the overlay, the
\* cart table and the total, where two items had been added: the modal is
\* closed, the page scrolls, and the stored cart is the cart
C22_Witness ==
    /\ NoCartView
    /\ "modal-overlay" \notin page
    /\ ev.op = "thumb"
    /\ Truthy(ev.src)
    /\ ~ModalOpen
    /\ ~ScrollSuppressed
    /\ Len(cart) = 2
    /\ cartTable = <<>>
    /\ storageMode = "ok"
    /\ PersistedCart(storage) = cart
====
